---------------------------- MODULE Spec2Model ----------------------------
(***************************************************************************)
(* State-machine model of the Meno Telegram bot                            *)
(* (src/src/meno_telegram_bot/main.py): the per-user admission guard       *)
(* (pending_users), the per-chat histories (dialog_histories), the         *)
(* streaming pipeline (process_backend) and its two sibling background     *)
(* tasks (keep_typing, rotate_thinking_phrases), as scheduled by asyncio:  *)
(* every action is the code that runs between two suspension points.       *)
(*                                                                         *)
(* Text is a sequence of one-character strings.  The think markers are     *)
(* shortened to "<t>" and "</t>" (the source has "<think>", "</think>"):   *)
(* like the originals they do not overlap themselves or each other.        *)
(***************************************************************************)
EXTENDS Integers, Sequences, FiniteSets, TLC

\* ------------------------------------------------------------------ bounds

\* Concurrent handler instances the model tracks at once.
NSlots == 2

\* Requests admitted in one behaviour: of the two users together (Spec) and
\* of the one user (SpecRun).
MaxRequests == 2

MaxRequestsRun == 3

\* Chat-transport calls (send, edit, chat action) that raise in one behaviour
\* of SpecRun; in Spec the chat transport does not fail.
MaxFaultsRun == 2

\* Largest value of the wall clock (time.time()), in units of MIN_EDIT_INTERVAL.
MaxTime == 1

MaxTimeRun == 1

\* SpecStream, one request whose stream comes in several fragments: requests
\* admitted, failing chat-transport calls, largest clock value, and the most
\* fragments one stream is cut into.
MaxRequestsStream == 1

MaxFaultsStream == 2

MaxTimeStream == 2

MaxFragments == 3

\* SpecThink: the texts strip_think_from_text is applied to are made of at most
\* this many pieces (a letter, a blank, a newline, a marker).
MaxThinkTokens == 4

\* SpecClient: a response body holds at most this many SSE events and
\* arrives in at most this many network chunks.
MaxEvents == 2

MaxChunks == 2

\* SpecFormat: the texts the formatting functions are applied to are made of
\* at most this many pieces (a character, a marker token, a delimiter).
MaxFormatTokens == 3

\* SpecFormat: the Markdown texts convert_markdown_to_telegram is applied to
\* are made of at most this many pieces (a character or a delimiter).
MaxMarkdownTokens == 4

\* ------------------------------------------------------- program constants

\* main.py:34 has 12; the model runs the same code with a window of 2 turns
\* (and a stored bound of 2 * 2) so that the trimming cases are reachable.
MAX_HISTORY_MESSAGES == 2

\* main.py:30 has 0.8 s; the clock of the model counts in that unit.
MIN_EDIT_INTERVAL == 1

THINK_OPEN == <<"<", "t", ">">>

THINK_CLOSE == <<"<", "/", "t", ">">>

\* PHRASES["thinking"], PHRASES["fallback"] and the "Ошибка API: " of
\* get_backend_response, each as a one-letter text.
THINKING_PHRASE == <<"P">>

FALLBACK_PHRASE == <<"F">>

API_ERROR == <<"E">>

Users == {"u1", "u2"}

Chats == {"c1", "c2"}

Slots == 1..NSlots

\* Identifiers of Python list objects: one per chat held by dialog_histories
\* plus one per run that still holds a list the dictionary has dropped.
ListIds == 1..(Cardinality(Chats) + NSlots)

\* --------------------------------------------------------------- str helpers

\* pat occurs in t at position i
OccursAt(t, pat, i) ==
    /\ i >= 1
    /\ i + Len(pat) - 1 <= Len(t)
    /\ \A k \in 1..Len(pat) : t[i + k - 1] = pat[k]

\* str.find: position of the first occurrence of pat in t at or after from; 0 if none
Find(t, pat, from) ==
    LET hits == {i \in from..(Len(t) - Len(pat) + 1) : OccursAt(t, pat, i)}
    IN  IF hits = {} THEN 0 ELSE CHOOSE i \in hits : \A j \in hits : i <= j

\* pat in t
Contains(t, pat) == Find(t, pat, 1) # 0

\* str.isspace on the characters of the model
IsSpace(ch) == ch \in {" ", "\n"}

\* str.strip()
Strip(t) ==
    LET keep == {i \in 1..Len(t) : ~IsSpace(t[i])}
    IN  IF keep = {} THEN <<>>
        ELSE LET lo == CHOOSE i \in keep : \A j \in keep : i <= j
                 hi == CHOOSE i \in keep : \A j \in keep : i >= j
             IN  SubSeq(t, lo, hi)

\* str.replace(token, replacement)
RECURSIVE Replace(_, _, _)
Replace(t, token, replacement) ==
    LET i == Find(t, token, 1)
    IN  IF i = 0 THEN t
        ELSE SubSeq(t, 1, i - 1) \o replacement
             \o Replace(SubSeq(t, i + Len(token), Len(t)), token, replacement)

\* re.sub(r"<think>.*?</think>", "", text, flags=re.DOTALL): leftmost opening
\* marker, shortest match up to the next closing marker, repeated on the rest.
RECURSIVE RemoveThinkSpans(_)
RemoveThinkSpans(t) ==
    LET o == Find(t, THINK_OPEN, 1)
        c == IF o = 0 THEN 0 ELSE Find(t, THINK_CLOSE, o + Len(THINK_OPEN))
    IN  IF o = 0 \/ c = 0 THEN t
        ELSE SubSeq(t, 1, o - 1)
             \o RemoveThinkSpans(SubSeq(t, c + Len(THINK_CLOSE), Len(t)))

\* text.split(THINK_OPEN, 1)[0]
BeforeThinkOpen(t) ==
    LET o == Find(t, THINK_OPEN, 1)
    IN  IF o = 0 THEN t ELSE SubSeq(t, 1, o - 1)

strip_think_from_text(text) ==
    IF ~Contains(text, THINK_OPEN) THEN text
    ELSE LET cleaned == RemoveThinkSpans(text)
         IN  Strip(IF Contains(cleaned, THINK_OPEN)
                   THEN BeforeThinkOpen(cleaned)
                   ELSE cleaned)

\* The characters Telegram MarkdownV2 reserves (escape_chars); the backquote,
\* which a TLA+ string cannot hold, is left out: no text of the model has it.
escape_chars ==
    {"_", "*", "[", "]", "(", ")", "~", ">", "#", "+", "-", "=", "|",
     "{", "}", ".", "!", "\\"}

\* re.sub(f"([{re.escape(escape_chars)}])", r"\\\1", text)
RECURSIVE escape_markdown_v2(_)
escape_markdown_v2(text) ==
    IF text = <<>> THEN <<>>
    ELSE (IF Head(text) \in escape_chars THEN <<"\\", Head(text)>> ELSE <<Head(text)>>)
         \o escape_markdown_v2(Tail(text))

\* The placeholders of convert_markdown_to_telegram, character by character.
bold_open == <<"@", "@", "B", "_", "O", "P", "E", "N", "@", "@">>

bold_close == <<"@", "@", "B", "_", "C", "L", "O", "S", "E", "@", "@">>

italic_open == <<"@", "@", "I", "_", "O", "P", "E", "N", "@", "@">>

italic_close == <<"@", "@", "I", "_", "C", "L", "O", "S", "E", "@", "@">>

preserved_tokens == {bold_open, bold_close, italic_open, italic_close}

\* The last index of the line that holds position p (the "$" of re.MULTILINE).
LineEnd(t, p) ==
    LET nl == {k \in p..Len(t) : t[k] = "\n"}
    IN  IF nl = {} THEN Len(t)
        ELSE (CHOOSE k \in nl : \A m \in nl : k <= m) - 1

\* ^(#{1,6})\s*(.+)$ tried at the line start i: the hashes and then the white
\* space (line breaks included) are taken greedily and given back one by one
\* until one character other than a line break is left for group 2, which
\* then runs to the end of its line.  from..to is group 2.
HeadingMatch(t, i) ==
    LET hs == {k \in 0..6 : \A m \in i..(i + k - 1) : m <= Len(t) /\ t[m] = "#"}
        h == CHOOSE k \in hs : \A m \in hs : k >= m
        j == i + h
        ws == {w \in 0..(Len(t) - j + 1) : \A m \in j..(j + w - 1) : IsSpace(t[m])}
        cand == {w \in ws : j + w <= Len(t) /\ t[j + w] # "\n"}
        w == CHOOSE x \in cand : \A y \in cand : x >= y
        from == IF cand # {} THEN j + w ELSE j - 1
    IN  IF h = 0 \/ (cand = {} /\ h = 1) THEN [ok |-> FALSE]
        ELSE [ok |-> TRUE, from |-> from, to |-> LineEnd(t, from)]

\* re.sub(r"^(#{1,6})\s*(.+)$", heading_to_bold, text, flags=re.MULTILINE),
\* from the line start i on.
RECURSIVE HeadingSub(_, _)
HeadingSub(t, i) ==
    IF i > Len(t) THEN <<>>
    ELSE LET m == HeadingMatch(t, i)
             le == IF m.ok THEN m.to ELSE LineEnd(t, i)
             line == IF m.ok
                     THEN bold_open \o Strip(SubSeq(t, m.from, m.to)) \o bold_close
                     ELSE SubSeq(t, i, le)
         IN  line \o (IF le < Len(t) THEN <<"\n">> ELSE <<>>) \o HeadingSub(t, le + 2)

\* re.sub(r"\*\*(.+?)\*\*", bold_repl, text) and the same with "__": the
\* leftmost doubled delimiter, the shortest content of at least one character
\* with no line break up to the next doubled delimiter, repeated on the rest.
RECURSIVE BoldSub(_, _)
BoldSub(t, d) ==
    IF t = <<>> THEN <<>>
    ELSE LET ends == {m \in 1..(Len(t) - 4) :
                        /\ \A k \in 3..(2 + m) : t[k] # "\n"
                        /\ t[3 + m] = d /\ t[4 + m] = d}
             m == CHOOSE x \in ends : \A y \in ends : x <= y
         IN  IF OccursAt(t, <<d, d>>, 1) /\ ends # {}
             THEN bold_open \o SubSeq(t, 3, 2 + m) \o bold_close
                  \o BoldSub(SubSeq(t, 5 + m, Len(t)), d)
             ELSE <<Head(t)>> \o BoldSub(Tail(t), d)

\* (?<!d)d(?!d): a delimiter with no delimiter next to it
Lone(t, i, d) ==
    /\ t[i] = d
    /\ (i = 1 \/ t[i - 1] # d)
    /\ (i = Len(t) \/ t[i + 1] # d)

\* re.sub(r"(?<!\*)\*(?!\*)(.+?)(?<!\*)\*(?!\*)", italic_repl, text) and the
\* same with "_", from position i on.
RECURSIVE ItalicSub(_, _, _)
ItalicSub(t, i, d) ==
    IF i > Len(t) THEN <<>>
    ELSE LET ends == {q \in (i + 2)..Len(t) :
                        /\ Lone(t, q, d)
                        /\ \A k \in (i + 1)..(q - 1) : t[k] # "\n"}
             q == CHOOSE x \in ends : \A y \in ends : x <= y
         IN  IF Lone(t, i, d) /\ ends # {}
             THEN italic_open \o SubSeq(t, i + 1, q - 1) \o italic_close
                  \o ItalicSub(t, q + 1, d)
             ELSE <<t[i]>> \o ItalicSub(t, i + 1, d)

\* _escape_markdown_v2_preserving: the text split at the preserved tokens,
\* the tokens kept and everything between them escaped.
RECURSIVE escape_markdown_v2_preserving(_)
escape_markdown_v2_preserving(text) ==
    IF text = <<>> THEN <<>>
    ELSE LET here == {tok \in preserved_tokens : OccursAt(text, tok, 1)}
             tok == CHOOSE x \in here : TRUE
         IN  IF here # {}
             THEN tok \o escape_markdown_v2_preserving(SubSeq(text, Len(tok) + 1, Len(text)))
             ELSE escape_markdown_v2(<<Head(text)>>)
                  \o escape_markdown_v2_preserving(Tail(text))

convert_markdown_to_telegram(text) ==
    LET headed == HeadingSub(text, 1)
        bolded == BoldSub(BoldSub(headed, "*"), "_")
        italicized == ItalicSub(ItalicSub(bolded, 1, "*"), 1, "_")
        escaped == escape_markdown_v2_preserving(italicized)
    IN  Replace(Replace(Replace(Replace(escaped, bold_open, <<"*">>),
                                bold_close, <<"*">>),
                        italic_open, <<"_">>),
                italic_close, <<"_">>)

prepare_for_markdown_v2(text) == convert_markdown_to_telegram(text)

\* ------------------------------------------------------------------- inputs

TxtA == <<"a">>

TxtB == <<"b">>

TxtWs == <<" ">>

TxtThinkOnly == <<"<", "t", ">", "x", "<", "/", "t", ">">>

\* An answer with a think section in the middle and a reserved character.
TxtThinkMid == <<"a", "<", "t", ">", "x", "<", "/", "t", ">", ".">>

\* An answer whose think section is never closed.
TxtThinkOpen == <<"a", "<", "t", ">", "x">>

\* Every way of cutting text t into at most n fragments, none of them empty.
RECURSIVE Splits(_, _)
Splits(t, n) ==
    IF t = <<>> THEN {<<>>}
    ELSE IF n = 0 THEN {}
    ELSE UNION {{<<SubSeq(t, 1, k)>> \o rest :
                    rest \in Splits(SubSeq(t, k + 1, Len(t)), n - 1)} :
                k \in 1..Len(t)}

\* The streams of SpecStream: the three answers, cut every way.
StreamSplits ==
    Splits(TxtThinkMid, MaxFragments) \cup Splits(TxtThinkOpen, MaxFragments)
        \cup Splits(TxtThinkOnly, MaxFragments)

\* The fragment sequences stream_backend_response may yield (each fragment is
\* non-empty: the generator yields a piece only `if piece`).  The empty
\* sequence stands for a non-200 status, a transport failure or an immediate
\* [DONE]; a sequence and its prefixes stand for a stream cut by a failure.
StreamsOf(m) ==
    IF m = "multi"
    THEN {<<>>, <<TxtA>>}
    ELSE IF m = "single"
    THEN {<<>>, <<TxtWs>>, <<TxtA>>}
    ELSE {<<>>, <<TxtWs>>} \cup StreamSplits

\* What the non-streaming POST can come back with: the request raised
\* ("exception"), a status other than 200 ("status"), a body that is not JSON
\* or not of the expected shape ("malformed"), or a JSON object whose first
\* choice has the content (empty when it is absent).
ResponsesOf(m) ==
    IF m = "multi"
    THEN {[kind |-> "ok", status |-> "200", content |-> TxtB]}
    ELSE IF m = "stream"
    THEN {[kind |-> "ok", status |-> "200", content |-> TxtB]}
    ELSE IF m = "single"
    THEN {[kind |-> "ok", status |-> "200", content |-> TxtB],
          [kind |-> "ok", status |-> "200", content |-> TxtThinkOnly],
          [kind |-> "status", status |-> "500", content |-> <<>>]}
    ELSE {[kind |-> "ok", status |-> "200", content |-> TxtB],
          [kind |-> "ok", status |-> "200", content |-> <<>>],
          [kind |-> "malformed", status |-> "200", content |-> <<>>],
          [kind |-> "status", status |-> "500", content |-> <<>>],
          [kind |-> "status", status |-> "404", content |-> <<>>],
          [kind |-> "exception", status |-> "-", content |-> <<>>]}

UsersOf(m) == IF m = "multi" THEN Users ELSE {"u1"}

ChatsOf(m) == IF m = "multi" THEN Chats ELSE {"c1"}

SlotsOf(m) == IF m = "multi" THEN Slots ELSE {1}

RequestsOf(m) ==
    IF m = "multi" THEN MaxRequests
    ELSE IF m = "single" THEN MaxRequestsRun ELSE MaxRequestsStream

FaultsOf(m) ==
    IF m = "multi" THEN 0
    ELSE IF m = "single" THEN MaxFaultsRun ELSE MaxFaultsStream

TimesOf(m) ==
    0..(IF m = "multi" THEN MaxTime
        ELSE IF m = "single" THEN MaxTimeRun ELSE MaxTimeStream)

\* -------------------------------------------------------------------- state

VARIABLES
    mode,              \* which input sets this behaviour draws from
    pending_users,     \* main.py:22
    dialog_histories,  \* main.py:33: chat -> id of its list object, 0 = no key
    heap,              \* the list objects: id -> sequence of turns
    last_edit_times,   \* main.py:29
    clock,             \* the last value time.time() returned
    slot,              \* the message_handler instances in flight
    admitted,          \* how many requests were admitted so far
    faults,            \* how many chat-transport calls raised so far
    ev,                \* the notice the last step sent, if it sent one
    call               \* the call of a text function or of the backend client
                       \* a behaviour follows on its own (NoCall in the bot's)

vars == <<mode, pending_users, dialog_histories, heap, last_edit_times, clock, slot,
          admitted, faults, ev, call>>

\* The outcome of a chat-transport call: it returns (ok) or raises.
Transport(ok) ==
    IF ok THEN faults' = faults
    ELSE /\ faults < FaultsOf(mode)
         /\ faults' = faults + 1

NoEv == [type |-> "none", user |-> "-"]

NoCall == [pc |-> "none"]

\* A slot no handler occupies.  hpc: where message_handler stands; bpc: where
\* process_backend stands; typing / rotating: where keep_typing and
\* rotate_thinking_phrases stand; cancel: Task.cancel() was called on both.
\* The fields from frags on record what the run did (they steer nothing);
\* edits_ok counts the streamed edits, first attempt or retry, that returned.
Idle ==
    [hpc |-> "free", user |-> "-", chat |-> "-", bpc |-> "none",
     typing |-> "none", rotating |-> "none", cancel |-> FALSE,
     stop_event |-> FALSE, history |-> 0, messages |-> <<>>,
     raw_answer |-> <<>>, final_answer |-> <<>>, first_answer_sent |-> FALSE,
     stream |-> <<>>, visible_candidate |-> <<>>, prepared |-> <<>>,
     shown |-> <<>>,
     frags |-> 0, stream_calls |-> 0, ns_calls |-> 0, ns_window |-> <<>>,
     reply |-> <<>>, final_edit |-> <<>>, appended |-> <<>>,
     fragments |-> <<>>, stream_window |-> <<>>, edit_log |-> <<>>,
     edits_ok |-> 0]

\* The record of one edit_text call process_backend makes: which call it is
\* ("stream", "retry", "final", "plain", "fallback"), the text it carries and
\* the clock when it is made.
Logged(r, kind, text, at) ==
    Append(r.edit_log, [kind |-> kind, text |-> text, at |-> at])

UserTurn == [role |-> "user", content |-> <<"q">>]

AssistantTurn(text) == [role |-> "assistant", content |-> text]

\* history[-n:]
\* The first n elements instead of the last n.
FirstN(h, n) == IF Len(h) <= n THEN h ELSE SubSeq(h, 1, n)

LastN(h, n) == IF Len(h) <= n THEN h ELSE SubSeq(h, Len(h) - n + 1, Len(h))

\* The list objects some name still refers to, given the dictionary and the slots.
Referenced(dict, sl) ==
    {dict[c] : c \in Chats} \cup {sl[s].history : s \in Slots}

\* Objects nothing refers to are gone.
Collect(dict, sl, hp) ==
    [id \in ListIds |-> IF id \in Referenced(dict, sl) THEN hp[id] ELSE <<>>]

FreshId(dict, sl) ==
    CHOOSE id \in ListIds :
        /\ id \notin Referenced(dict, sl)
        /\ \A j \in ListIds : j \notin Referenced(dict, sl) => id <= j

Init ==
    /\ mode = "multi"
    /\ pending_users = {}
    /\ dialog_histories = [c \in Chats |-> 0]
    /\ heap = [id \in ListIds |-> <<>>]
    /\ last_edit_times = [c \in Chats |-> 0]
    /\ clock = MIN_EDIT_INTERVAL
    /\ slot = [s \in Slots |-> Idle]
    /\ admitted = 0
    /\ faults = 0
    /\ ev = NoEv
    /\ call = NoCall

InitRun ==
    /\ mode = "single"
    /\ pending_users = {}
    /\ dialog_histories = [c \in Chats |-> 0]
    /\ heap = [id \in ListIds |-> <<>>]
    /\ last_edit_times = [c \in Chats |-> 0]
    /\ clock = MIN_EDIT_INTERVAL
    /\ slot = [s \in Slots |-> Idle]
    /\ admitted = 0
    /\ faults = 0
    /\ ev = NoEv
    /\ call = NoCall

InitStream ==
    /\ mode = "stream"
    /\ pending_users = {}
    /\ dialog_histories = [c \in Chats |-> 0]
    /\ heap = [id \in ListIds |-> <<>>]
    /\ last_edit_times = [c \in Chats |-> 0]
    /\ clock = MIN_EDIT_INTERVAL
    /\ slot = [s \in Slots |-> Idle]
    /\ admitted = 0
    /\ faults = 0
    /\ ev = NoEv
    /\ call = NoCall


\* ------------------------------------------------- message_handler (entry)

\* The admission test left out.
IsPendingNoCheck(user_id) == FALSE

\* `user_id in pending_users`
IsPending(user_id) == user_id \in pending_users

\* pending_users.discard(user_id)
Discard(pending, user_id) == pending \ {user_id}

LowestFree(sl) ==
    CHOOSE s \in SlotsOf(mode) :
        /\ sl[s].hpc = "free"
        /\ \A t \in SlotsOf(mode) : sl[t].hpc = "free" => s <= t

\* A text message of user u arrives in chat c: message_handler from its entry
\* to its first await.  A pending user gets the "please wait" notice and the
\* handler returns; otherwise the user is added and the placeholder is posted
\* (the handler then waits for message.answer).
message_handler(u, c) ==
    IF IsPending(u)
    THEN /\ ev' = [type |-> "wait_notice", user |-> u]
         /\ UNCHANGED <<mode, call, faults, pending_users, dialog_histories, heap,
                        last_edit_times, clock, slot, admitted>>
    ELSE /\ \E s \in SlotsOf(mode) : slot[s].hpc = "free"
         /\ admitted < RequestsOf(mode)
         /\ admitted' = admitted + 1
         /\ pending_users' = pending_users \cup {u}
         /\ slot' = [slot EXCEPT ![LowestFree(slot)] =
                        [Idle EXCEPT !.hpc = "placeholder", !.user = u, !.chat = c]]
         /\ ev' = NoEv
         /\ UNCHANGED <<mode, call, faults, dialog_histories, heap, last_edit_times, clock>>

\* message.answer(random_phrase("thinking")) returns or raises.  On return the
\* stop event and the three tasks are created and the handler awaits
\* backend_task; a raise leaves the handler (line 439 is outside the try).
placeholder_posted(s, ok) ==
    /\ slot[s].hpc = "placeholder"
    /\ slot' = [slot EXCEPT ![s] =
                   IF ok
                   THEN [@ EXCEPT !.hpc = "await_backend", !.shown = THINKING_PHRASE,
                                  !.stop_event = FALSE, !.typing = "new",
                                  !.rotating = "new", !.bpc = "new"]
                   ELSE [@ EXCEPT !.hpc = "raised"]]
    /\ ev' = NoEv
    /\ Transport(ok)
    /\ UNCHANGED <<mode, call, admitted, pending_users, dialog_histories, heap, last_edit_times, clock>>

\* ------------------------------------------------------------- keep_typing

\* The task is "running" from its first step on: it is suspended either in
\* bot.send_chat_action or in asyncio.sleep(2), and holds no state of the bot
\* (last_typing_times, which only spaces the pings, is not modelled).

\* A ping raises: only CancelledError is caught (line 394), so the task ends
\* with that exception.  A ping that returns changes nothing.
keep_typing_ping_failed(s) ==
    /\ slot[s].typing = "running"
    /\ ~slot[s].cancel
    /\ slot' = [slot EXCEPT ![s].typing = "failed"]
    /\ ev' = NoEv
    /\ Transport(FALSE)
    /\ UNCHANGED <<mode, call, admitted, pending_users, dialog_histories, heap, last_edit_times, clock>>

\* The cancelled task runs next: CancelledError at its await, caught, return.
keep_typing_cancelled(s) ==
    /\ slot[s].typing = "running"
    /\ slot[s].cancel
    /\ slot' = [slot EXCEPT ![s].typing = "done"]
    /\ ev' = NoEv
    /\ UNCHANGED <<mode, call, faults, admitted, pending_users, dialog_histories, heap, last_edit_times, clock>>

\* ------------------------------------------------- rotate_thinking_phrases

\* `while not stop_event.is_set()` as the loop is entered or re-entered
RotateLoop(r) == IF r.stop_event THEN "done" ELSE "sleep"

\* asyncio.sleep(interval) is over: break if the event is set, else start the edit.
rotate_wake(s) ==
    /\ slot[s].rotating = "sleep"
    /\ ~slot[s].cancel
    /\ slot' = [slot EXCEPT ![s].rotating = IF slot[s].stop_event THEN "done" ELSE "edit"]
    /\ ev' = NoEv
    /\ UNCHANGED <<mode, call, faults, admitted, pending_users, dialog_histories, heap, last_edit_times, clock>>

\* msg.edit_text(random_phrase("thinking")) returns or raises (logged).
rotate_edited(s, ok) ==
    /\ slot[s].rotating = "edit"
    /\ ~slot[s].cancel
    /\ slot' = [slot EXCEPT ![s] =
                   [@ EXCEPT !.shown = IF ok THEN THINKING_PHRASE ELSE @,
                             !.rotating = RotateLoop(slot[s])]]
    /\ ev' = NoEv
    /\ Transport(ok)
    /\ UNCHANGED <<mode, call, admitted, pending_users, dialog_histories, heap, last_edit_times, clock>>

\* The cancelled task runs next and returns.  An edit request that was in
\* flight may already have reached the chat (landed) or not.
rotate_cancelled(s, landed) ==
    /\ slot[s].rotating \in {"sleep", "edit"}
    /\ slot[s].cancel
    /\ landed => slot[s].rotating = "edit"
    /\ slot' = [slot EXCEPT ![s] =
                   [@ EXCEPT !.shown = IF landed THEN THINKING_PHRASE ELSE @,
                             !.rotating = "done"]]
    /\ ev' = NoEv
    /\ UNCHANGED <<mode, call, faults, admitted, pending_users, dialog_histories, heap, last_edit_times, clock>>


\* ---------------------------------------------------------- process_backend

\* get_backend_response: the error string on a status other than 200, the
\* content of the first choice, the fallback phrase when the content is
\* absent or empty or when the request raised.
get_backend_response(resp) ==
    IF resp.kind \in {"exception", "malformed"} THEN FALLBACK_PHRASE
    ELSE IF resp.kind = "status" THEN API_ERROR \o <<resp.status>>
    ELSE IF resp.content = <<>> THEN FALLBACK_PHRASE
    ELSE resp.content

\* The raw answer shown as it is, markers and think section included.
VisibleCandidateRaw(raw) == <<raw>>

\* Lines 301-317: what of the raw answer may be shown; <<>> when the fragment
\* is skipped (`continue`), else <<visible_candidate>>.
VisibleCandidate(raw) ==
    LET has_open == Contains(raw, THINK_OPEN)
        has_close == Contains(raw, THINK_CLOSE)
    IN  IF has_open /\ ~has_close
        THEN IF Strip(BeforeThinkOpen(raw)) # <<>> THEN <<BeforeThinkOpen(raw)>> ELSE <<>>
        ELSE IF has_close
        THEN IF Strip(strip_think_from_text(raw)) # <<>>
             THEN <<strip_think_from_text(raw)>> ELSE <<>>
        ELSE <<raw>>

\* The throttle left out: every fragment with something to show is edited in.
EditDueAlways(now, last_edit) == TRUE

\* `now - last_edit >= MIN_EDIT_INTERVAL` (line 322)
EditDue(now, last_edit) == now - last_edit >= MIN_EDIT_INTERVAL

\* The fallback request made whatever the stream gave.
StreamWasEmptyAlways(raw) == TRUE

\* `not raw_answer.strip()` (line 337)
StreamWasEmpty(raw) == Strip(raw) = <<>>

\* Only the last fragment kept.
AccumulateLast(raw, piece) == piece

\* `raw_answer += piece` (line 299)
Accumulate(raw, piece) == raw \o piece

\* The step leaves process_backend suspended at its next await.
Suspend(s, r) ==
    /\ slot' = [slot EXCEPT ![s] = r]
    /\ UNCHANGED <<pending_users, dialog_histories, heap>>

\* The except path without its stop_event.set().
ExceptNoStop(s, r) ==
    Suspend(s, [r EXCEPT !.final_answer = IF @ # <<>> THEN @ ELSE FALLBACK_PHRASE,
                         !.edit_log = Logged(r, "fallback", FALLBACK_PHRASE, clock),
                         !.bpc = "exc_edit"])

\* `except Exception` (lines 367-374): keep an answer already produced, else
\* take the fallback phrase; set the stop event; edit the placeholder.
Except(s, r) ==
    Suspend(s, [r EXCEPT !.final_answer = IF @ # <<>> THEN @ ELSE FALLBACK_PHRASE,
                         !.stop_event = TRUE,
                         !.edit_log = Logged(r, "fallback", FALLBACK_PHRASE, clock),
                         !.bpc = "exc_edit"])

\* Whether the finally block appends the assistant turn (`if final_answer`).
HasAnswer(r) == r.final_answer # <<>>

\* `len(history) > 2 * MAX_HISTORY_MESSAGES`
TooLong(h) == Len(h) > 2 * MAX_HISTORY_MESSAGES

\* `finally` (lines 377-383): release the user; append the assistant turn to
\* the list the run holds; when that list is too long, bind the chat's key to
\* a new list holding its tail.  The task is then over.
Finally(s, r) ==
    LET hid  == r.history
        h1   == IF HasAnswer(r)
                THEN Append(heap[hid], AssistantTurn(r.final_answer))
                ELSE heap[hid]
        trim == HasAnswer(r) /\ TooLong(h1)
        r2   == [r EXCEPT !.bpc = "finished", !.history = 0,
                          !.appended = IF HasAnswer(r) THEN <<r.final_answer>> ELSE <<>>]
        sl2  == [slot EXCEPT ![s] = r2]
        hp1  == [heap EXCEPT ![hid] = h1]
        new  == FreshId([dialog_histories EXCEPT ![r.chat] = 0], sl2)
        dict == IF trim THEN [dialog_histories EXCEPT ![r.chat] = new]
                ELSE dialog_histories
        hp2  == IF trim THEN [hp1 EXCEPT ![new] = LastN(h1, 2 * MAX_HISTORY_MESSAGES)]
                ELSE hp1
    IN  /\ pending_users' = Discard(pending_users, r.user)
        /\ slot' = sl2
        /\ dialog_histories' = dict
        /\ heap' = Collect(dict, sl2, hp2)

\* The three tasks created at lines 443-445 take their first steps one after
\* the other (asyncio runs ready callbacks in the order they were scheduled):
\* keep_typing reaches its first await, rotate_thinking_phrases tests the stop
\* event and sleeps, and process_backend (lines 266-292) takes the chat's list
\* (the defaultdict makes one for a missing key), appends the user turn, cuts
\* the request window and calls send_chat_action.
process_backend_start(s) ==
    LET r   == slot[s]
        old == dialog_histories[r.chat]
        hid == IF old = 0 THEN FreshId(dialog_histories, slot) ELSE old
        h   == Append(heap[hid], UserTurn)
    IN  /\ r.bpc = "new"
        /\ dialog_histories' = [dialog_histories EXCEPT ![r.chat] = hid]
        /\ heap' = [heap EXCEPT ![hid] = h]
        /\ slot' = [slot EXCEPT ![s] =
                       [r EXCEPT !.typing = "running",
                                 !.rotating = RotateLoop(r),
                                 !.history = hid,
                                 !.messages = LastN(h, MAX_HISTORY_MESSAGES),
                                 !.bpc = "chat_action"]]
        /\ ev' = NoEv
        /\ UNCHANGED <<mode, call, faults, admitted, pending_users, last_edit_times, clock>>

\* send_chat_action returns: the streaming POST is made and the fragments it
\* will yield are fixed.  It raises: the except path.
chat_action_done(s, ok, fragments) ==
    LET r == slot[s]
    IN  /\ r.bpc = "chat_action"
        /\ IF ok
           THEN Suspend(s, [r EXCEPT !.bpc = "stream", !.stream = fragments,
                                     !.fragments = fragments,
                                     !.stream_window = r.messages,
                                     !.stream_calls = @ + 1])
           ELSE /\ fragments = <<>>
                /\ Except(s, r)
        /\ ev' = NoEv
        /\ Transport(ok)
        /\ UNCHANGED <<mode, call, admitted, last_edit_times, clock>>

\* One fragment arrives (lines 295-329): accumulate, find the visible
\* candidate, and when an edit is due stamp the chat's time, set the stop
\* event on the first render and send the edit.
stream_piece(s, now) ==
    LET r    == slot[s]
        raw  == Accumulate(r.raw_answer, Head(r.stream))
        vc   == VisibleCandidate(raw)
        r1   == [r EXCEPT !.raw_answer = raw, !.stream = Tail(@), !.frags = @ + 1]
    IN  /\ r.bpc = "stream"
        /\ r.stream # <<>>
        /\ IF vc = <<>>
           THEN /\ now = clock
                /\ Suspend(s, r1)
                /\ UNCHANGED <<last_edit_times, clock>>
           ELSE /\ now >= clock
                /\ clock' = now
                /\ IF EditDue(now, last_edit_times[r.chat])
                   THEN /\ last_edit_times' = [last_edit_times EXCEPT ![r.chat] = now]
                        /\ Suspend(s, [r1 EXCEPT !.stop_event = TRUE,
                                                 !.first_answer_sent = TRUE,
                                                 !.visible_candidate = vc[1],
                                                 !.prepared = prepare_for_markdown_v2(vc[1]),
                                                 !.edit_log = Logged(r, "stream",
                                                     prepare_for_markdown_v2(vc[1]), now),
                                                 !.bpc = "edit"])
                   ELSE /\ Suspend(s, r1)
                        /\ UNCHANGED last_edit_times
        /\ ev' = NoEv
        /\ UNCHANGED <<mode, call, faults, admitted>>

\* The streamed edit returns, or raises and the retry (line 333) is sent.
stream_edit_done(s, ok) ==
    LET r == slot[s]
    IN  /\ r.bpc = "edit"
        /\ Suspend(s, IF ok
                      THEN [r EXCEPT !.shown = r.prepared, !.edits_ok = @ + 1,
                                     !.bpc = "stream"]
                      ELSE [r EXCEPT !.edit_log = Logged(r, "retry",
                                                         r.visible_candidate, clock),
                                     !.bpc = "edit_retry"])
        /\ ev' = NoEv
        /\ Transport(ok)
        /\ UNCHANGED <<mode, call, admitted, last_edit_times, clock>>

\* The retry, sent with visible_candidate itself, returns or raises (logged).
stream_retry_done(s, ok) ==
    LET r == slot[s]
    IN  /\ r.bpc = "edit_retry"
        /\ Suspend(s, [r EXCEPT !.shown = IF ok THEN r.visible_candidate ELSE @,
                                !.edits_ok = IF ok THEN @ + 1 ELSE @,
                                !.bpc = "stream"])
        /\ ev' = NoEv
        /\ Transport(ok)
        /\ UNCHANGED <<mode, call, admitted, last_edit_times, clock>>

\* The window get_backend_response is called with: the payload built at line 280.
FallbackWindow(r) == r.messages

\* The stream is over (line 337): an answer that is empty after strip() makes
\* the non-streaming request; otherwise the think section is stripped, the
\* stop event set and the final edit sent, at a time `now` that the code
\* does not read.
stream_end(s, now) ==
    LET r     == slot[s]
        clean == strip_think_from_text(r.raw_answer)
    IN  /\ r.bpc = "stream"
        /\ r.stream = <<>>
        /\ now >= clock
        /\ StreamWasEmpty(r.raw_answer) => now = clock
        /\ clock' = now
        /\ Suspend(s, IF StreamWasEmpty(r.raw_answer)
                      THEN [r EXCEPT !.bpc = "nonstream", !.ns_calls = @ + 1,
                                     !.ns_window = FallbackWindow(r)]
                      ELSE [r EXCEPT !.final_answer = clean, !.stop_event = TRUE,
                                     !.prepared = prepare_for_markdown_v2(clean),
                                     !.final_edit = <<prepare_for_markdown_v2(clean)>>,
                                     !.edit_log = Logged(r, "final",
                                         prepare_for_markdown_v2(clean), now),
                                     !.bpc = "final_edit"])
        /\ ev' = NoEv
        /\ UNCHANGED <<mode, call, faults, admitted, last_edit_times>>

\* The reply taken as it is, its think section not stripped.
FallbackAnswerRaw(reply) == reply

\* The answer the fallback branch takes from the reply (lines 342-343).
FallbackAnswer(reply) == strip_think_from_text(reply)

\* get_backend_response returns (lines 339-350).
nonstream_done(s, resp) ==
    LET r     == slot[s]
        reply == get_backend_response(resp)
        clean == FallbackAnswer(reply)
    IN  /\ r.bpc = "nonstream"
        /\ Suspend(s, [r EXCEPT !.reply = <<reply>>, !.final_answer = clean,
                                !.stop_event = TRUE,
                                !.prepared = prepare_for_markdown_v2(clean),
                                !.final_edit = <<prepare_for_markdown_v2(clean)>>,
                                !.edit_log = Logged(r, "final",
                                    prepare_for_markdown_v2(clean), clock),
                                !.bpc = "final_edit"])
        /\ ev' = NoEv
        /\ UNCHANGED <<mode, call, faults, admitted, last_edit_times, clock>>

\* The final edit (lines 350, 362) returns, and the finally block runs; or it
\* raises and the unformatted edit (lines 353, 365) is sent.
final_edit_done(s, ok) ==
    LET r == slot[s]
    IN  /\ r.bpc = "final_edit"
        /\ IF ok
           THEN Finally(s, [r EXCEPT !.shown = r.prepared])
           ELSE Suspend(s, [r EXCEPT !.edit_log = Logged(r, "plain", r.final_answer, clock),
                                     !.bpc = "final_plain"])
        /\ ev' = NoEv
        /\ Transport(ok)
        /\ UNCHANGED <<mode, call, admitted, last_edit_times, clock>>

\* The unformatted edit returns (finally), or raises into the except path.
final_plain_done(s, ok) ==
    LET r == slot[s]
    IN  /\ r.bpc = "final_plain"
        /\ IF ok
           THEN Finally(s, [r EXCEPT !.shown = r.final_answer])
           ELSE Except(s, r)
        /\ ev' = NoEv
        /\ Transport(ok)
        /\ UNCHANGED <<mode, call, admitted, last_edit_times, clock>>

\* A fallback edit that raised takes the except path once more.
except_edit_done_again(s, ok) ==
    LET r == slot[s]
    IN  /\ r.bpc = "exc_edit"
        /\ IF ok THEN Finally(s, [r EXCEPT !.shown = FALLBACK_PHRASE])
           ELSE Except(s, r)
        /\ ev' = NoEv
        /\ Transport(ok)
        /\ UNCHANGED <<mode, call, admitted, last_edit_times, clock>>

\* msg_to_edit.edit_text(fallback) returns or raises (logged); finally.
except_edit_done(s, ok) ==
    LET r == slot[s]
    IN  /\ r.bpc = "exc_edit"
        /\ Finally(s, [r EXCEPT !.shown = IF ok THEN FALLBACK_PHRASE ELSE @])
        /\ ev' = NoEv
        /\ Transport(ok)
        /\ UNCHANGED <<mode, call, admitted, last_edit_times, clock>>


\* ----------------------------------------------- message_handler (cleanup)

\* backend_task is over and the handler runs on (lines 451-456): set the stop
\* event, cancel both tasks, await typing_task.  A typing task that already
\* ended with an exception re-raises it here and the handler is left at once;
\* otherwise the handler waits for the task to end.
backend_awaited(s) ==
    LET r == slot[s]
    IN  /\ r.hpc = "await_backend"
        /\ r.bpc = "finished"
        /\ slot' = [slot EXCEPT ![s] =
                       [r EXCEPT !.stop_event = TRUE, !.cancel = TRUE,
                                 !.hpc = IF r.typing = "failed" THEN "raised"
                                         ELSE "join_typing"]]
        /\ ev' = NoEv
        /\ UNCHANGED <<mode, call, faults, admitted, pending_users, dialog_histories, heap, last_edit_times, clock>>

\* The user the handler's last statement releases (line 459).
Released(r) == r.user

\* typing_task has ended: await rotating_task (lines 457-459); if that task
\* has ended too the handler releases the user and returns.
typing_awaited(s) ==
    LET r == slot[s]
    IN  /\ r.hpc = "join_typing"
        /\ r.typing = "done"
        /\ IF r.rotating = "done"
           THEN /\ pending_users' = Discard(pending_users, Released(r))
                /\ slot' = [slot EXCEPT ![s].hpc = "done"]
           ELSE /\ slot' = [slot EXCEPT ![s].hpc = "join_rotating"]
                /\ UNCHANGED pending_users
        /\ ev' = NoEv
        /\ UNCHANGED <<mode, call, faults, admitted, dialog_histories, heap, last_edit_times, clock>>

\* rotating_task has ended: release the user, return.
rotating_awaited(s) ==
    LET r == slot[s]
    IN  /\ r.hpc = "join_rotating"
        /\ r.rotating = "done"
        /\ pending_users' = Discard(pending_users, Released(r))
        /\ slot' = [slot EXCEPT ![s].hpc = "done"]
        /\ ev' = NoEv
        /\ UNCHANGED <<mode, call, faults, admitted, dialog_histories, heap, last_edit_times, clock>>

\* The handler has returned or raised and its tasks are over: nothing of the
\* request is left.
retire(s) ==
    /\ slot[s].hpc \in {"done", "raised"}
    /\ slot[s].typing \in {"none", "done", "failed"}
    /\ slot[s].rotating \in {"none", "done"}
    /\ slot' = [slot EXCEPT ![s] = Idle]
    /\ ev' = NoEv
    /\ UNCHANGED <<mode, call, faults, admitted, pending_users, dialog_histories, heap, last_edit_times, clock>>

\* ---------------------------------------------------- clear_history_handler

\* dialog_histories.pop(chat_id, None); the backend call and the answer that
\* follow touch no state of the bot.
clear_history_handler(c) ==
    LET dict == [dialog_histories EXCEPT ![c] = 0]
    IN  /\ dialog_histories[c] # 0
        /\ dialog_histories' = dict
        /\ heap' = Collect(dict, slot, heap)
        /\ ev' = NoEv
        /\ UNCHANGED <<mode, call, faults, admitted, pending_users, last_edit_times, clock, slot>>

\* ------------------------------------------------------------ specification

\* The steps that take no failing chat-transport call.
Next ==
    \/ \E u \in UsersOf(mode), c \in ChatsOf(mode) : message_handler(u, c)
    \/ \E s \in Slots, ok \in BOOLEAN : placeholder_posted(s, ok)
    \/ \E s \in Slots : keep_typing_cancelled(s)
    \/ \E s \in Slots : rotate_wake(s)
    \/ \E s \in Slots, ok \in BOOLEAN : rotate_edited(s, ok)
    \/ \E s \in Slots, landed \in BOOLEAN : rotate_cancelled(s, landed)
    \/ \E s \in Slots : process_backend_start(s)
    \/ \E s \in Slots, ok \in BOOLEAN, f \in StreamsOf(mode) : chat_action_done(s, ok, f)
    \/ \E s \in Slots, now \in TimesOf(mode) : stream_piece(s, now)
    \/ \E s \in Slots, ok \in BOOLEAN : stream_edit_done(s, ok)
    \/ \E s \in Slots, now \in TimesOf(mode) : stream_end(s, now)
    \/ \E s \in Slots, resp \in ResponsesOf(mode) : nonstream_done(s, resp)
    \/ \E s \in Slots, ok \in BOOLEAN : final_edit_done(s, ok)
    \/ \E s \in Slots : backend_awaited(s)
    \/ \E s \in Slots : typing_awaited(s)
    \/ \E s \in Slots : rotating_awaited(s)
    \/ \E s \in Slots : retire(s)
    \/ \E c \in ChatsOf(mode) : clear_history_handler(c)

\* The steps that follow a failed chat-transport call.
NextFault ==
    \/ \E s \in Slots : keep_typing_ping_failed(s)
    \/ \E s \in Slots, ok \in BOOLEAN : stream_retry_done(s, ok)
    \/ \E s \in Slots, ok \in BOOLEAN : final_plain_done(s, ok)
    \/ \E s \in Slots, ok \in BOOLEAN : except_edit_done(s, ok)

NextRun == Next \/ NextFault

\* Every interleaving of the requests of two users in two chats, over a chat
\* transport that does not fail.
Spec == Init /\ [][Next]_vars

\* One user in one chat, one request after the other, over a chat transport
\* that may fail.
SpecRun == InitRun /\ [][NextRun]_vars

\* One request whose answer streams in several fragments, with a think
\* section cut at every place, over a chat transport that may fail.
SpecStream == InitStream /\ [][NextRun]_vars


\* ------------------------------------------- the text functions on their own

\* The variables of the bot, which the calls below leave alone.
botVars == <<pending_users, dialog_histories, heap, last_edit_times, clock, slot,
             admitted, faults, ev>>

\* No request was ever made.
Quiet ==
    /\ pending_users = {}
    /\ dialog_histories = [c \in Chats |-> 0]
    /\ heap = [id \in ListIds |-> <<>>]
    /\ last_edit_times = [c \in Chats |-> 0]
    /\ clock = MIN_EDIT_INTERVAL
    /\ slot = [s \in Slots |-> Idle]
    /\ admitted = 0
    /\ faults = 0
    /\ ev = NoEv

\* Every text made of at most n of the pieces, in every order.
RECURSIVE TextsOf(_, _)
TextsOf(pieces, n) ==
    IF n = 0 THEN {<<>>}
    ELSE LET shorter == TextsOf(pieces, n - 1)
         IN  shorter \cup {t \o p : t \in shorter, p \in pieces}

\* What a raw answer is made of, as far as strip_think_from_text can tell.
ThinkPieces == {<<"a">>, <<" ">>, <<"\n">>, THINK_OPEN, THINK_CLOSE}

ThinkTexts(n) == TextsOf(ThinkPieces, n)

InitThink ==
    /\ mode = "think"
    /\ Quiet
    /\ call \in {[pc |-> "text", text |-> t] : t \in ThinkTexts(MaxThinkTokens)}

\* strip_think_from_text(text)
strip_think_call ==
    /\ call.pc = "text"
    /\ call' = [pc |-> "stripped", text |-> call.text,
                result |-> strip_think_from_text(call.text)]
    /\ UNCHANGED <<mode, botVars>>

\* strip_think_from_text applied to its own result
strip_think_again ==
    /\ call.pc = "stripped"
    /\ call' = [pc |-> "stripped_twice", text |-> call.text, result |-> call.result,
                second |-> strip_think_from_text(call.result)]
    /\ UNCHANGED <<mode, botVars>>

\* Lines 301-317 on the complete raw answer (the last fragment has arrived),
\* next to line 355 on the same raw answer.
visible_candidate_call ==
    /\ call.pc = "text"
    /\ call' = [pc |-> "candidate", text |-> call.text,
                candidate |-> VisibleCandidate(call.text),
                result |-> strip_think_from_text(call.text)]
    /\ UNCHANGED <<mode, botVars>>

\* strip_think_from_text applied to the visible candidate
strip_candidate ==
    /\ call.pc = "candidate"
    /\ call.candidate # <<>>
    /\ call' = [pc |-> "candidate_stripped", text |-> call.text,
                candidate |-> call.candidate, result |-> call.result,
                second |-> strip_think_from_text(call.candidate[1])]
    /\ UNCHANGED <<mode, botVars>>

NextThink ==
    \/ strip_think_call
    \/ strip_think_again
    \/ visible_candidate_call
    \/ strip_candidate

\* strip_think_from_text and the visible candidate on every text of up to MaxThinkTokens pieces.
SpecThink == InitThink /\ [][NextThink]_vars

\* ------------------------------------------------------ the backend client

\* "data:" and "[DONE]", shortened to "d:" and "[D]", and the blank line that
\* ends an event.
DATA_PREFIX == <<"d", ":">>

DONE_PAYLOAD == <<"[", "D", "]">>

EVENT_SEP == <<"\n", "\n">>

\* A character that UTF-8 encodes in two bytes: its lead byte, its
\* continuation byte, and the character itself.  Every other byte of the
\* model is ASCII and stands for itself.
LEAD_BYTE == "C3"

CONT_BYTE == "A9"

WIDE_CHAR == "U"

\* chunk.decode("utf-8", errors="ignore"): each chunk is decoded on its own;
\* a lead byte without its continuation byte and a continuation byte without
\* its lead byte are dropped.
RECURSIVE Decode(_)
Decode(chunk) ==
    IF chunk = <<>> THEN <<>>
    ELSE IF Head(chunk) = LEAD_BYTE
    THEN IF Len(chunk) >= 2 /\ chunk[2] = CONT_BYTE
         THEN <<WIDE_CHAR>> \o Decode(SubSeq(chunk, 3, Len(chunk)))
         ELSE Decode(Tail(chunk))
    ELSE IF Head(chunk) = CONT_BYTE THEN Decode(Tail(chunk))
    ELSE <<Head(chunk)>> \o Decode(Tail(chunk))

\* event.splitlines()
RECURSIVE SplitLines(_)
SplitLines(t) ==
    LET i == Find(t, <<"\n">>, 1)
    IN  IF t = <<>> THEN <<>>
        ELSE IF i = 0 THEN <<t>>
        ELSE <<SubSeq(t, 1, i - 1)>> \o SplitLines(SubSeq(t, i + 1, Len(t)))

\* json.loads(data_str) on the payloads of the model: "{" c.. "}" stands for
\* {"choices": [{"delta": {"content": "c.."}}]} ("{}" for an object without
\* choices or with an empty content), "5" is JSON but no object, everything
\* else raises JSONDecodeError.
JsonLoads(data_str) ==
    LET n     == Len(data_str)
        inner == SubSeq(data_str, 2, n - 1)
    IN  IF /\ n >= 2
           /\ data_str[1] = "{"
           /\ data_str[n] = "}"
           /\ \A i \in 1..Len(inner) : inner[i] \notin {"{", "}"}
        THEN [kind |-> "object", content |-> inner]
        ELSE IF data_str = <<"5">> THEN [kind |-> "number", content |-> <<>>]
        ELSE [kind |-> "invalid", content |-> <<>>]

\* A line for which "[DONE]" is a payload like any other.
HandleLineNoDone(line) ==
    LET data_str == Strip(SubSeq(line, Len(DATA_PREFIX) + 1, Len(line)))
        obj      == JsonLoads(data_str)
    IN  IF ~OccursAt(line, DATA_PREFIX, 1) THEN [done |-> FALSE, pieces |-> <<>>]
        ELSE IF obj.kind # "object" \/ obj.content = <<>>
        THEN [done |-> FALSE, pieces |-> <<>>]
        ELSE [done |-> FALSE, pieces |-> <<obj.content>>]

\* Lines 222-248, one line of an event: whether the generator returns at it
\* ("[DONE]") and the pieces it yields (none or one).
HandleLine(line) ==
    LET data_str == Strip(SubSeq(line, Len(DATA_PREFIX) + 1, Len(line)))
        obj      == JsonLoads(data_str)
    IN  IF ~OccursAt(line, DATA_PREFIX, 1) THEN [done |-> FALSE, pieces |-> <<>>]
        ELSE IF data_str = <<>> THEN [done |-> FALSE, pieces |-> <<>>]
        ELSE IF data_str = DONE_PAYLOAD THEN [done |-> TRUE, pieces |-> <<>>]
        ELSE IF obj.kind # "object" \/ obj.content = <<>>
        THEN [done |-> FALSE, pieces |-> <<>>]
        ELSE [done |-> FALSE, pieces |-> <<obj.content>>]

\* `for line in lines`
RECURSIVE HandleLines(_)
HandleLines(lines) ==
    IF lines = <<>> THEN [done |-> FALSE, pieces |-> <<>>]
    ELSE LET h == HandleLine(Head(lines))
         IN  IF h.done THEN h
             ELSE LET rest == HandleLines(Tail(lines))
                  IN  [done |-> rest.done, pieces |-> h.pieces \o rest.pieces]

\* `while "\n\n" in buffer` (lines 218-248): what is left in the buffer,
\* the pieces yielded, and whether the generator returned at a "[DONE]".
RECURSIVE Drain(_)
Drain(buffer) ==
    LET i == Find(buffer, EVENT_SEP, 1)
    IN  IF i = 0 THEN [buffer |-> buffer, done |-> FALSE, pieces |-> <<>>]
        ELSE LET event == SubSeq(buffer, 1, i - 1)
                 rest  == SubSeq(buffer, i + Len(EVENT_SEP), Len(buffer))
                 h     == HandleLines(SplitLines(event))
             IN  IF h.done THEN [buffer |-> rest, done |-> TRUE, pieces |-> h.pieces]
                 ELSE LET d == Drain(rest)
                      IN  [buffer |-> d.buffer, done |-> d.done,
                           pieces |-> h.pieces \o d.pieces]

\* The fragments stream_backend_response yields for a 200 response whose body
\* arrives as these chunks and is read to its end.
RECURSIVE FragmentsOf(_, _)
FragmentsOf(chunks, buffer) ==
    IF chunks = <<>> THEN <<>>
    ELSE LET d == Drain(buffer \o Decode(Head(chunks)))
         IN  IF d.done THEN d.pieces
             ELSE d.pieces \o FragmentsOf(Tail(chunks), d.buffer)

\* The events a body is made of, each with its bytes: a content event, one
\* whose content is the two-byte character, a payload that is no JSON, one
\* that is JSON but no object, an object without content, an event with a
\* line that does not start with "data:", one with two data lines, and the
\* terminator.
EventKinds == {"x", "wide", "invalid", "number", "empty", "comment", "two", "done"}

EventBytes(k) ==
    CASE k = "x"       -> <<"d", ":", "{", "x", "}", "\n", "\n">>
      [] k = "wide"    -> <<"d", ":", " ", "{", LEAD_BYTE, CONT_BYTE, "}", "\n", "\n">>
      [] k = "invalid" -> <<"d", ":", "{", "x", "\n", "\n">>
      [] k = "number"  -> <<"d", ":", "5", "\n", "\n">>
      [] k = "empty"   -> <<"d", ":", "{", "}", "\n", "\n">>
      [] k = "comment" -> <<"e", ":", "x", "\n", "d", ":", "{", "y", "}", "\n", "\n">>
      [] k = "two"     -> <<"d", ":", "{", "x", "}", "\n",
                            "d", ":", "{", "y", "}", "\n", "\n">>
      [] k = "done"    -> <<"d", ":", "[", "D", "]", "\n", "\n">>

RECURSIVE BodyOf(_)
BodyOf(events) ==
    IF events = <<>> THEN <<>> ELSE EventBytes(Head(events)) \o BodyOf(Tail(events))

RECURSIVE EventSeqs(_)
EventSeqs(n) ==
    IF n = 0 THEN {<<>>}
    ELSE LET shorter == EventSeqs(n - 1)
         IN  shorter \cup {Append(es, k) : es \in shorter, k \in EventKinds}

\* The exceptions aiohttp raises on a request or while the body is read.
TransportErrors == {"ClientError", "TimeoutError"}

\* A handler that lets a timeout through.
CaughtUnlessTimeout(exc) == exc # "TimeoutError"

\* `except Exception` (lines 175 and 250) catches each of them.
Caught(exc) == exc \in TransportErrors

StreamCalls(maxEvents, maxChunks) ==
    UNION {{[pc |-> "request", fn |-> "stream", events |-> es, body |-> BodyOf(es),
             chunking |-> ch, chunks |-> ch, status |-> "-", buffer |-> <<>>,
             fragments |-> <<>>, failed |-> FALSE, raised |-> FALSE] :
            ch \in Splits(BodyOf(es), maxChunks)} :
           es \in EventSeqs(maxEvents)}

NonStreamCalls ==
    {[pc |-> "request", fn |-> "nonstream", resp |-> resp, result |-> <<>>,
      raised |-> FALSE] : resp \in ResponsesOf("client")}

InitClient ==
    /\ mode = "client"
    /\ Quiet
    /\ call \in StreamCalls(MaxEvents, MaxChunks) \cup NonStreamCalls

\* get_backend_response returns (or raises, if its handler lets the
\* exception through).
get_backend_response_call ==
    /\ call.pc = "request"
    /\ call.fn = "nonstream"
    /\ call' = [call EXCEPT !.pc = "returned",
                            !.result = get_backend_response(call.resp),
                            !.raised = /\ call.resp.kind = "exception"
                                       /\ ~Caught("ClientError")]
    /\ UNCHANGED <<mode, botVars>>

\* session.post returns with a status: anything but 200 ends the sequence
\* (lines 202-210).
stream_open(status) ==
    /\ call.pc = "request"
    /\ call.fn = "stream"
    /\ call' = [call EXCEPT !.status = status,
                            !.pc = IF status = "200" THEN "streaming" ELSE "ended"]
    /\ UNCHANGED <<mode, botVars>>

\* response.content.iter_any() gives the next chunk (lines 211-248).
stream_chunk ==
    /\ call.pc = "streaming"
    /\ call.chunks # <<>>
    /\ LET d == Drain(call.buffer \o Decode(Head(call.chunks)))
       IN  call' = [call EXCEPT !.chunks = Tail(@),
                                !.buffer = d.buffer,
                                !.fragments = @ \o d.pieces,
                                !.pc = IF d.done THEN "ended" ELSE "streaming"]
    /\ UNCHANGED <<mode, botVars>>

\* The body is over.
stream_eof ==
    /\ call.pc = "streaming"
    /\ call.chunks = <<>>
    /\ call' = [call EXCEPT !.pc = "ended"]
    /\ UNCHANGED <<mode, botVars>>

\* session.post or iter_any raises: logged, the sequence ends (lines 250-252).
stream_raised(exc) ==
    /\ call.pc \in {"request", "streaming"}
    /\ call.fn = "stream"
    /\ call' = [call EXCEPT !.pc = "ended", !.failed = TRUE, !.raised = ~Caught(exc)]
    /\ UNCHANGED <<mode, botVars>>

NextClient ==
    \/ get_backend_response_call
    \/ \E status \in {"200", "500"} : stream_open(status)
    \/ stream_chunk
    \/ stream_eof
    \/ \E exc \in TransportErrors : stream_raised(exc)

\* One call of the backend client, for every response of the model.
SpecClient == InitClient /\ [][NextClient]_vars

\* ------------------------------------- utils/telegram_format.py on its own

\* The marker tokens "BOPEN", "BCLOSE", "IOPEN", "ICLOSE", shortened to two
\* letters each (like the originals, no token overlaps itself or another),
\* and the "@@" that may enclose them.
BOPEN == <<"B", "o">>

BCLOSE == <<"B", "c">>

IOPEN == <<"I", "o">>

ICLOSE == <<"I", "c">>

AT_AT == <<"@", "@">>

Delimited(token) == AT_AT \o token \o AT_AT

MarkerTokens == {BOPEN, BCLOSE, IOPEN, ICLOSE}

\* Some marker token, bare or enclosed, occurs in t.
HasMarkerToken(t) == \E token \in MarkerTokens : Contains(t, token)

BOLD == <<"*", "*">>

ITALIC == <<"*">>

\* The first position at or after from that holds no whitespace (Len(t) + 1
\* if there is none): where a greedy \s* ends.
SkipSpace(t, from) ==
    LET stops == {i \in from..Len(t) : ~IsSpace(t[i])}
    IN  IF stops = {} THEN Len(t) + 1 ELSE CHOOSE i \in stops : \A j \in stops : i <= j

\* The first position p >= from such that t[p..to] is whitespace only
\* (to + 1 if t[to] is none): where the \s* before the closing token starts.
TrailingSpace(t, from, to) ==
    LET starts == {p \in from..(to + 1) : \A i \in p..to : IsSpace(t[i])}
    IN  CHOOSE p \in starts : \A q \in starts : p <= q

\* re.compile(open \s*(.*?)\s* close, re.DOTALL).sub(wrap \1 wrap, t): the
\* leftmost opening token, the nearest closing token behind it, the text in
\* between without its surrounding whitespace; repeated on what follows.
RECURSIVE PairSub(_, _, _, _)
PairSub(t, open, close, wrap) ==
    LET i == Find(t, open, 1)
        k == SkipSpace(t, i + Len(open))
        c == Find(t, close, k)
        p == TrailingSpace(t, k, c - 1)
    IN  IF i = 0 THEN t
        ELSE IF c = 0 THEN t
        ELSE SubSeq(t, 1, i - 1) \o wrap \o SubSeq(t, k, p - 1) \o wrap
             \o PairSub(SubSeq(t, c + Len(close), Len(t)), open, close, wrap)

\* _replace_artifact_pairs
replace_artifact_pairs(text) ==
    LET t1 == PairSub(text, Delimited(BOPEN), Delimited(BCLOSE), BOLD)
        t2 == PairSub(t1, BOPEN, BCLOSE, BOLD)
        t3 == PairSub(t2, Delimited(IOPEN), Delimited(ICLOSE), ITALIC)
    IN  PairSub(t3, IOPEN, ICLOSE, ITALIC)

\* The loop over single_replacements (lines 43-54), in the order of the dict.
SingleReplacements(t) ==
    LET t1 == Replace(t, Delimited(BOPEN), BOLD)
        t2 == Replace(t1, Delimited(BCLOSE), BOLD)
        t3 == Replace(t2, BOPEN, BOLD)
        t4 == Replace(t3, BCLOSE, BOLD)
        t5 == Replace(t4, Delimited(IOPEN), ITALIC)
        t6 == Replace(t5, Delimited(ICLOSE), ITALIC)
        t7 == Replace(t6, IOPEN, ITALIC)
    IN  Replace(t7, ICLOSE, ITALIC)

\* How many of the at most two '@' before position i (ending at i - 1) or
\* from position i on are there.
AtsBefore(t, i) ==
    IF i >= 3 /\ t[i - 1] = "@" /\ t[i - 2] = "@" THEN 2
    ELSE IF i >= 2 /\ t[i - 1] = "@" THEN 1 ELSE 0

AtsFrom(t, i) ==
    IF i + 1 <= Len(t) /\ t[i] = "@" /\ t[i + 1] = "@" THEN 2
    ELSE IF i <= Len(t) /\ t[i] = "@" THEN 1 ELSE 0

\* re.sub(r"@{0,2}(?:BOPEN|BCLOSE|IOPEN|ICLOSE)@{0,2}", "", t) (line 56)
RECURSIVE RemoveTokens(_)
RemoveTokens(t) ==
    LET hits == {i \in 1..Len(t) : \E token \in MarkerTokens : OccursAt(t, token, i)}
        i    == CHOOSE h \in hits : \A j \in hits : h <= j
        from == i - AtsBefore(t, i)
        to   == i + 2 + AtsFrom(t, i + 2)
    IN  IF hits = {} THEN t
        ELSE SubSeq(t, 1, from - 1) \o RemoveTokens(SubSeq(t, to, Len(t)))

\* The result trimmed before it is returned.
SanitizeStripped(text) ==
    Strip(RemoveTokens(SingleReplacements(replace_artifact_pairs(text))))

sanitize_llm_artifacts(text) ==
    IF text = <<>> THEN <<>>
    ELSE RemoveTokens(SingleReplacements(replace_artifact_pairs(text)))

\* The sanitized text, not escaped.
PrepareUnescaped(text) ==
    IF text = <<>> THEN <<>>
    ELSE RemoveTokens(SingleReplacements(replace_artifact_pairs(text)))

\* telegram_format.escape_markdown_v2 has the character class and the
\* substitution of main.escape_markdown_v2, and "" for an empty text.
prepare_stream_chunk(text) == escape_markdown_v2(sanitize_llm_artifacts(text))

ArtifactPieces ==
    {<<"a">>, <<" ">>, <<".">>, <<"\\">>, <<"@">>, BOPEN, BCLOSE, IOPEN, ICLOSE,
     Delimited(BOPEN), Delimited(BCLOSE), Delimited(IOPEN), Delimited(ICLOSE)}

ArtifactTexts(n) == TextsOf(ArtifactPieces, n)

\* A letter, a space, a line break, a reserved character that delimits
\* nothing, and the delimiters of headings, bold and italic spans.
MarkdownPieces ==
    {<<"a">>, <<" ">>, <<"\n">>, <<".">>, <<"#">>, <<"*">>, <<"*", "*">>,
     <<"_">>, <<"_", "_">>}

MarkdownTexts(n) == TextsOf(MarkdownPieces, n)

InitFormat ==
    /\ mode = "format"
    /\ Quiet
    /\ call \in {[pc |-> "text", fn |-> "stream_chunk", text |-> t] : t \in ArtifactTexts(MaxFormatTokens)}
                 \cup {[pc |-> "text", fn |-> "final", text |-> t] : t \in MarkdownTexts(MaxMarkdownTokens)}

\* sanitize_llm_artifacts(text)
sanitize_call ==
    /\ call.pc = "text"
    /\ call.fn = "stream_chunk"
    /\ call' = [pc |-> "sanitized", fn |-> call.fn, text |-> call.text,
                result |-> sanitize_llm_artifacts(call.text)]
    /\ UNCHANGED <<mode, botVars>>

\* sanitize_llm_artifacts applied to its own result
sanitize_again ==
    /\ call.pc = "sanitized"
    /\ call' = [pc |-> "sanitized_twice", fn |-> call.fn, text |-> call.text,
                result |-> call.result,
                second |-> sanitize_llm_artifacts(call.result)]
    /\ UNCHANGED <<mode, botVars>>

\* prepare_stream_chunk(text)
prepare_stream_chunk_call ==
    /\ call.pc = "text"
    /\ call.fn = "stream_chunk"
    /\ call' = [pc |-> "rendered", fn |-> call.fn, text |-> call.text,
                result |-> prepare_stream_chunk(call.text)]
    /\ UNCHANGED <<mode, botVars>>

\* prepare_for_markdown_v2(text)
prepare_for_markdown_v2_call ==
    /\ call.pc = "text"
    /\ call.fn = "final"
    /\ call' = [pc |-> "converted", fn |-> call.fn, text |-> call.text,
                result |-> prepare_for_markdown_v2(call.text)]
    /\ UNCHANGED <<mode, botVars>>

NextFormat ==
    \/ sanitize_call
    \/ sanitize_again
    \/ prepare_stream_chunk_call
    \/ prepare_for_markdown_v2_call

\* The formatting functions on every text of their input sets.
SpecFormat == InitFormat /\ [][NextFormat]_vars

\* ------------------------------------------------------------------- claims

\* The handlers of user u that were admitted and have not yet left message_handler.
ActiveRuns(u) ==
    {s \in Slots : /\ slot[s].user = u
                   /\ slot[s].hpc \in {"placeholder", "await_backend",
                                      "join_typing", "join_rotating"}}

\* dialog_histories[c] as a reader sees it (a missing key reads as empty).
StoredHistory(c) ==
    IF dialog_histories[c] = 0 THEN <<>> ELSE heap[dialog_histories[c]]

\* process_backend of slot s has appended its user turn and has not yet run
\* its finally block.
Mutating(s) == slot[s].bpc \notin {"none", "new", "finished"}

\* The run of slot s is over and its stream never gave a fragment.
EmptyStreamRun(s) ==
    /\ slot[s].bpc = "finished"
    /\ slot[s].stream_calls = 1
    /\ slot[s].frags = 0

\* C1: a message of a user who is in pending_users is answered with the
\* "please wait" notice and nothing else: no slot (placeholder, tasks, backend
\* request) is created, no history changes, pending_users stays as it was.
C1_RejectionCreatesNothing ==
    [][\A u \in Users :
          (u \in pending_users /\ \E c \in Chats : message_handler(u, c))
          => /\ ev' = [type |-> "wait_notice", user |-> u]
             /\ UNCHANGED <<pending_users, slot, dialog_histories, heap,
                            last_edit_times, clock, admitted>>]_vars

C1_Witness ==
    /\ ev.type = "wait_notice"
    /\ ev.user \in pending_users
    /\ Cardinality(ActiveRuns(ev.user)) = 1

\* C2: a user is in pending_users if and only if exactly one admitted request
\* of that user has not yet finished its cleanup.
C2_PendingIffOneActiveRun ==
    \A u \in Users : (u \in pending_users) <=> (Cardinality(ActiveRuns(u)) = 1)

\* C3: no permanent lockout: a user is in pending_users only while a handler
\* of that user is still running (the handlers alone remove the user).
C3_NoLockout ==
    \A u \in Users : u \in pending_users => ActiveRuns(u) # {}

\* C4: join before release: while the typing or the rotation task of a request
\* is still running, the request's user is in pending_users.
C4_JoinBeforeRelease ==
    \A s \in Slots :
        (slot[s].typing = "running" \/ slot[s].rotating \in {"sleep", "edit"})
        => slot[s].user \in pending_users

\* C5: when the handler of an admitted request has finished, returning or
\* raising, both background tasks of the request have ended.
C5_TasksEndedAtExit ==
    \A s \in Slots :
        (slot[s].hpc \in {"done", "raised"} /\ slot[s].typing # "none")
        => /\ slot[s].typing \in {"done", "failed"}
           /\ slot[s].rotating = "done"

\* C6: in every reachable state the stored history of every chat holds at most
\* 2 * MAX_HISTORY_MESSAGES turns.
C6_HistoryBound ==
    \A c \in Chats : Len(StoredHistory(c)) <= 2 * MAX_HISTORY_MESSAGES

\* C7: no two pipeline runs that are active at the same time work on the
\* history of the same chat.
C7_NoConcurrentHistoryMutation ==
    \A s1, s2 \in Slots :
        (s1 # s2 /\ Mutating(s1) /\ Mutating(s2)) => slot[s1].chat # slot[s2].chat

\* C8: a stored history that is empty (never written, or cleared by the reset
\* command) stays empty until a message of that chat is processed, whose user
\* turn is then all it holds: no run in flight puts older turns back.
C8_ResetStaysEmpty ==
    [][\A c \in Chats :
          (StoredHistory(c) = <<>> /\ StoredHistory(c)' # <<>>)
          => StoredHistory(c)' = <<UserTurn>>]_vars

\* C9 as stated: after a stream without fragments the non-streaming request is
\* made exactly once with the same window, and its think-stripped result is
\* the text of the final edit and the assistant turn appended to the history.
C9_FallbackResultAppended ==
    \A s \in Slots :
        EmptyStreamRun(s)
        => /\ slot[s].ns_calls = 1
           /\ slot[s].ns_window = slot[s].messages
           /\ slot[s].final_edit =
                  <<prepare_for_markdown_v2(strip_think_from_text(slot[s].reply[1]))>>
           /\ slot[s].appended = <<strip_think_from_text(slot[s].reply[1])>>

\* C9 as amended: after a stream without fragments the non-streaming request
\* is made exactly once with the same window; its think-stripped result is the
\* text of the final edit the pipeline sends; and when that result is not
\* empty it is the final answer, appended as the assistant turn to the list
\* the run holds.
C9_FallbackResultIsFinal ==
    \A s \in Slots :
        EmptyStreamRun(s)
        => /\ slot[s].ns_calls = 1
           /\ slot[s].ns_window = slot[s].messages
           /\ slot[s].final_edit =
                  <<prepare_for_markdown_v2(strip_think_from_text(slot[s].reply[1]))>>
           /\ strip_think_from_text(slot[s].reply[1]) # <<>>
              => /\ slot[s].final_answer = strip_think_from_text(slot[s].reply[1])
                 /\ slot[s].appended = <<strip_think_from_text(slot[s].reply[1])>>

\* A run whose stream gave nothing, whose reply was all think section, and one
\* whose reply had an answer.
C9_Witness ==
    \E s \in Slots :
        /\ EmptyStreamRun(s)
        /\ slot[s].reply = <<TxtB>>
        /\ slot[s].appended = <<TxtB>>
        /\ slot[s].shown = TxtB

\* C10 as stated: the non-streaming request is made at most once per run, and
\* only when no fragment was received.
C10_FallbackOnlyWithoutFragments ==
    \A s \in Slots :
        /\ slot[s].ns_calls <= 1
        /\ slot[s].ns_calls = 1 => slot[s].frags = 0
        /\ slot[s].frags > 0 => slot[s].stream_calls + slot[s].ns_calls = 1

\* C10 as amended: the non-streaming request is made at most once per run, and
\* only when the stream is over and the raw answer is empty or all whitespace;
\* a run whose raw answer holds anything else contacts the backend exactly
\* once, with the streaming request.
C10_FallbackOnlyOnBlankAnswer ==
    \A s \in Slots :
        /\ slot[s].ns_calls <= 1
        /\ slot[s].stream_calls <= 1
        /\ slot[s].ns_calls = 1
           => /\ slot[s].stream = <<>>
              /\ Strip(slot[s].raw_answer) = <<>>
        /\ Strip(slot[s].raw_answer) # <<>>
           => /\ slot[s].ns_calls = 0
              /\ slot[s].stream_calls = 1

\* A finished run that made the fallback request after a whitespace fragment,
\* beside which the claim's other case: a finished run with an answer.
C10_Witness ==
    \E s \in Slots :
        /\ slot[s].bpc = "finished"
        /\ slot[s].frags = 1
        /\ slot[s].raw_answer = TxtWs
        /\ slot[s].ns_calls = 1


\* The positions of the edit_text calls of the given kinds in the log of run r.
CallsOf(r, kinds) == {i \in DOMAIN r.edit_log : r.edit_log[i].kind \in kinds}

ThinkChar == "x"

HasChar(t, ch) == \E k \in DOMAIN t : t[k] = ch

\* C12: no text passed to an edit of the placeholder, streamed, retried or
\* final, holds a character of a think section, closed or still open, however
\* the markers fall on the fragment boundaries.
C12_ThinkNeverShown ==
    \A s \in Slots :
        /\ \A i \in DOMAIN slot[s].edit_log :
               ~HasChar(slot[s].edit_log[i].text, ThinkChar)
        /\ ~HasChar(slot[s].shown, ThinkChar)

\* A streamed edit sent by a fragment that came when the raw answer already
\* held think text, after a marker that was cut in two by a fragment boundary.
C12_Witness ==
    \E s \in Slots :
        /\ slot[s].bpc = "edit"
        /\ HasChar(slot[s].raw_answer, ThinkChar)
        /\ slot[s].fragments[1] = <<"a", "<", "t">>
        /\ slot[s].frags = 2
        /\ Len(slot[s].edit_log) = 2


\* "".join(fragments)
RECURSIVE Concat(_)
Concat(fs) == IF fs = <<>> THEN <<>> ELSE Head(fs) \o Concat(Tail(fs))

\* The run of slot s is over and its stream gave all its fragments.
StreamedRun(s) ==
    /\ slot[s].bpc = "finished"
    /\ slot[s].stream_calls = 1
    /\ slot[s].frags = Len(slot[s].fragments)

\* C13 as stated: a run whose stream gave at least one fragment ends with the
\* final edit as its last edit, the text of it the rendering of the
\* think-stripped concatenation of the fragments, which is the final answer.
C13_LastEditIsCleanedAnswer ==
    \A s \in Slots :
        (StreamedRun(s) /\ slot[s].fragments # <<>>)
        => LET r     == slot[s]
               clean == strip_think_from_text(Concat(r.fragments))
           IN  /\ r.edit_log # <<>>
               /\ r.edit_log[Len(r.edit_log)].kind = "final"
               /\ r.edit_log[Len(r.edit_log)].text = prepare_for_markdown_v2(clean)
               /\ r.final_answer = clean

\* C13 as amended: a run whose fragments together hold a character that is not
\* whitespace makes, after all its streamed edits, exactly one final edit with
\* the rendering of the think-stripped concatenation of the fragments; only an
\* unrendered edit of the same text and then the fallback phrase can follow
\* it (when it raised); and the cleaned text, when not empty, is the final
\* answer that is appended.
C13_FinalEditIsCleanedAnswer ==
    \A s \in Slots :
        (StreamedRun(s) /\ Strip(Concat(slot[s].fragments)) # <<>>)
        => LET r      == slot[s]
               log    == r.edit_log
               clean  == strip_think_from_text(Concat(r.fragments))
               finals == CallsOf(r, {"final"})
           IN  /\ Cardinality(finals) = 1
               /\ r.ns_calls = 0
               /\ \A i \in finals :
                      /\ log[i].text = prepare_for_markdown_v2(clean)
                      /\ \A j \in CallsOf(r, {"stream", "retry"}) : j < i
                      /\ i + 1 \in DOMAIN log
                         => log[i + 1] = [kind |-> "plain", text |-> clean,
                                          at |-> log[i].at]
                      /\ i + 2 \in DOMAIN log
                         => /\ log[i + 2].kind = "fallback"
                            /\ Len(log) = i + 2
               /\ clean # <<>> => /\ r.final_answer = clean
                                  /\ r.appended = <<clean>>
               /\ clean = <<>> => r.final_answer \in {<<>>, FALLBACK_PHRASE}

\* A run of three fragments, one of whose streamed edits failed and was
\* retried, and whose final edit went through.
C13_Witness ==
    \E s \in Slots :
        /\ StreamedRun(s)
        /\ Len(slot[s].fragments) = 3
        /\ CallsOf(slot[s], {"retry"}) # {}
        /\ slot[s].edit_log[Len(slot[s].edit_log)].kind = "final"
        /\ slot[s].final_answer = <<"a", ".">>
        /\ slot[s].shown = <<"a", "\\", ".">>


\* C14: the stop event of the phrase rotation is set whenever process_backend
\* has sent its final edit, its unformatted final edit or its fallback edit,
\* and whenever it is over, whether or not a fragment was ever rendered.
C14_StopSignalSet ==
    \A s \in Slots :
        /\ slot[s].bpc \in {"final_edit", "final_plain", "exc_edit", "finished"}
           => slot[s].stop_event
        /\ CallsOf(slot[s], {"final", "plain", "fallback"}) # {} => slot[s].stop_event

\* A run that is over, whose one fragment came inside the interval and was
\* not rendered.
C14_Witness ==
    \E s \in Slots :
        /\ slot[s].bpc = "finished"
        /\ slot[s].hpc = "await_backend"
        /\ slot[s].raw_answer = TxtA
        /\ ~slot[s].first_answer_sent
        /\ CallsOf(slot[s], {"stream"}) = {}
        /\ slot[s].stop_event


\* What the placeholder shows is text of an answer: not nothing, not a
\* "thinking" phrase, not the fallback phrase.
ShowsAnswer(r) == r.shown \notin {<<>>, THINKING_PHRASE, FALLBACK_PHRASE}

\* C15: once the placeholder shows answer text, no step writes a "thinking"
\* phrase over it.
C15_PhraseNeverOverAnswer ==
    [][\A s \in Slots :
          ShowsAnswer(slot[s]) => slot'[s].shown # THINKING_PHRASE]_vars


C17_RetrySendsRenderedText ==
    \A s \in Slots :
        \A i \in CallsOf(slot[s], {"retry"}) :
            /\ i > 1
            /\ slot[s].edit_log[i - 1].kind = "stream"
            /\ slot[s].edit_log[i].text = slot[s].edit_log[i - 1].text

\* C18: the step that ends a run (the finally block of process_backend)
\* leaves the conversation's stored history with the assistant turn of the
\* final answer appended and trimmed to its last 2 * MAX_HISTORY_MESSAGES
\* turns when the final answer is not empty, and unchanged when it is empty.
C18_AssistantTurnAppended ==
    [][\A s \in Slots :
          (slot[s].bpc \notin {"none", "finished"} /\ slot'[s].bpc = "finished")
          => LET c      == slot[s].chat
                 answer == slot'[s].final_answer
                 before == StoredHistory(c)
                 after  == StoredHistory(c)'
             IN  IF answer # <<>>
                 THEN after = LastN(Append(before, AssistantTurn(answer)),
                                    2 * MAX_HISTORY_MESSAGES)
                 ELSE after = before]_vars

\* C19: the window a run computes when it starts holds the most recent
\* min(length, MAX_HISTORY_MESSAGES) turns of the conversation's stored history
\* in their order and ends with the user turn of the current message; it does
\* not change during the run, and it is what the streaming request and the
\* non-streaming request carry.
C19_RequestWindow ==
    [][\A s \in Slots :
          LET r  == slot[s]
              r2 == slot'[s]
          IN  /\ (r.bpc = "new" /\ r2.bpc # "new")
                 => LET h == StoredHistory(r.chat)'
                        n == IF Len(h) <= MAX_HISTORY_MESSAGES
                             THEN Len(h) ELSE MAX_HISTORY_MESSAGES
                        w == r2.messages
                    IN  /\ n >= 1
                        /\ Len(w) = n
                        /\ \A i \in 1..n : w[i] = h[Len(h) - n + i]
                        /\ w[n] = UserTurn
              /\ (r.bpc \notin {"none", "new"} /\ r2.bpc \notin {"none", "new"})
                 => r2.messages = r.messages
              /\ r2.stream_calls = r.stream_calls + 1 => r2.stream_window = r.messages
              /\ r2.ns_calls = r.ns_calls + 1 => r2.ns_window = r.messages]_vars

\* A run on a history longer than the window: the user turn was appended to
\* a stored question and answer, the window holds the answer and the user
\* turn, and both requests of the run carried it.
C19_Witness ==
    \E s \in Slots :
        /\ slot[s].bpc = "final_edit"
        /\ slot[s].history # 0
        /\ Len(heap[slot[s].history]) = MAX_HISTORY_MESSAGES + 1
        /\ Len(slot[s].messages) = MAX_HISTORY_MESSAGES
        /\ slot[s].messages[1].role = "assistant"
        /\ slot[s].messages[MAX_HISTORY_MESSAGES] = UserTurn
        /\ slot[s].stream_calls = 1
        /\ slot[s].stream_window = slot[s].messages
        /\ slot[s].ns_calls = 1
        /\ slot[s].ns_window = slot[s].messages

\* C20: a message is rejected with the "please wait" notice only when its own
\* sender has a request in flight; a user who has none is admitted.
C20_RejectedOnlyWithOwnRequestInFlight ==
    ev.type = "wait_notice" => ActiveRuns(ev.user) # {}

\* C29: a conversation's last-edit timestamp is changed only by a streamed
\* edit that succeeded.  Read over the first request of a conversation, whose
\* timestamp starts at 0: once no streamed edit of the run is in progress,
\* the timestamp has moved only if a streamed edit of the run has returned.
C29_StampOnlyBySuccessfulEdit ==
    \A s \in Slots :
        (/\ admitted = 1
         /\ slot[s].hpc # "free"
         /\ slot[s].bpc \notin {"edit", "edit_retry"}
         /\ slot[s].edits_ok = 0)
        => last_edit_times[slot[s].chat] = 0

\* C30: the cleanup of an earlier request never removes the entry of a later
\* admitted request of the same user: while a request is in flight and its own
\* process_backend has not yet released the user, the user is in
\* pending_users (so a further message of that user is rejected).
C30_LaterAdmissionKept ==
    \A s \in Slots :
        (slot[s].hpc \in {"placeholder", "await_backend"} /\ slot[s].bpc # "finished")
        => slot[s].user \in pending_users

\* C23 as stated: the result of stripThink is trimmed of surrounding
\* whitespace, for every text; it holds no opening marker;
\* stripThink("a<think>b</think>c") = "ac" and stripThink("a<think>b") = "a".
C23_StripThinkResult ==
    call.pc = "stripped"
    => /\ Strip(call.result) = call.result
       /\ ~Contains(call.result, THINK_OPEN)
       /\ call.text = <<"a">> \o THINK_OPEN \o <<"a">> \o THINK_CLOSE \o <<"a">>
          => call.result = <<"a", "a">>
       /\ call.text = <<"a">> \o THINK_OPEN \o <<"a">>
          => call.result = <<"a">>

\* C24: stripThink applied to its own result changes nothing, and
\* stripThink of the visible candidate computed from the complete raw answer
\* is stripThink of that raw answer.
C24_IdempotentAndFinalPassAgrees ==
    /\ call.pc = "stripped_twice" => call.second = call.result
    /\ call.pc = "candidate_stripped" => call.second = call.result

\* C21: for a fixed response body the fragments streamCompletion produces
\* are the same for every way of cutting the body into chunks: those of the
\* body that arrives in one piece.
C21_ChunkingIndependent ==
    (/\ call.pc = "ended"
     /\ call.fn = "stream"
     /\ call.status = "200"
     /\ ~call.failed)
    => call.fragments = FragmentsOf(<<call.body>>, <<>>)

\* C22: the backend client never raises.  get_backend_response returns the
\* error string with the status on a status other than 200, the fallback
\* phrase on a malformed payload, an absent content or an exception, and the
\* content otherwise; stream_backend_response ends with no fragment on a
\* status other than 200 and just ends, keeping what it has yielded, on an
\* exception before or in the middle of the stream.
C22_ClientNeverRaises ==
    /\ (call.pc = "returned" /\ call.fn = "nonstream")
       => /\ ~call.raised
          /\ call.resp.kind = "status" => call.result = API_ERROR \o <<call.resp.status>>
          /\ (\/ call.resp.kind \in {"malformed", "exception"}
              \/ call.resp.kind = "ok" /\ call.resp.content = <<>>)
             => call.result = FALLBACK_PHRASE
          /\ (call.resp.kind = "ok" /\ call.resp.content # <<>>)
             => call.result = call.resp.content
    /\ (call.pc = "ended" /\ call.fn = "stream")
       => /\ ~call.raised
          /\ call.status \notin {"200", "-"} => call.fragments = <<>>
          /\ (call.failed /\ call.status = "-") => call.fragments = <<>>
          /\ call.failed
             => \E n \in 0..Len(call.chunking) :
                    /\ Len(call.chunks) = Len(call.chunking) - n
                    /\ call.fragments = FragmentsOf(SubSeq(call.chunking, 1, n), <<>>)

\* The stream raised after its first chunk had given a fragment and before
\* the second chunk was read.
C22_Witness ==
    /\ call.pc = "ended"
    /\ call.fn = "stream"
    /\ call.failed
    /\ call.fragments = <<<<"x">>>>
    /\ Len(call.chunks) = 1
    /\ Len(call.chunking) = 2

\* What the events of a body are to give: nothing from the terminator on;
\* before it one fragment for each data line with a content, in body order,
\* and none for a payload that is no JSON, for one that is no object, for an
\* object without content and for a line that does not start with "data:".
RECURSIVE ExpectedFragments(_)
ExpectedFragments(events) ==
    IF events = <<>> THEN <<>>
    ELSE LET k == Head(events)
         IN  IF k = "done" THEN <<>>
             ELSE (CASE k = "x"       -> <<(<<"x">>)>>
                     [] k = "wide"    -> <<(<<WIDE_CHAR>>)>>
                     [] k = "comment" -> <<(<<"y">>)>>
                     [] k = "two"     -> <<(<<"x">>), (<<"y">>)>>
                     [] OTHER         -> <<>>)
                  \o ExpectedFragments(Tail(events))

\* No chunk ends between the two bytes of the two-byte character.
WholeCharacters(chunking) ==
    \A i \in 1..Len(chunking) : chunking[i][Len(chunking[i])] # LEAD_BYTE

RECURSIVE WellEscaped(_)
WellEscaped(t) ==
    IF t = <<>> THEN TRUE
    ELSE IF Head(t) = "\\"
    THEN /\ Len(t) >= 2
         /\ t[2] \in escape_chars
         /\ WellEscaped(SubSeq(t, 3, Len(t)))
    ELSE /\ Head(t) \notin escape_chars
         /\ WellEscaped(Tail(t))

\* C25: renderStreamChunk(t) holds no marker token, bare or enclosed in "@@";
\* every reserved character of it, the asterisks of the wrappers and the
\* backslashes included, is preceded by an escaping backslash; and a matched
\* pair of tokens has become the (escaped) bold or italic wrapper around its
\* content.
C25_StreamChunkSafe ==
    (call.pc = "rendered" /\ call.fn = "stream_chunk")
    => /\ ~HasMarkerToken(call.result)
       /\ WellEscaped(call.result)
       /\ \A token \in {BOPEN, Delimited(BOPEN)}, content \in {<<"a">>, <<".">>} :
              call.text = token \o content \o (IF token = BOPEN THEN BCLOSE
                                               ELSE Delimited(BCLOSE))
              => call.result = <<"\\", "*", "\\", "*">> \o escape_markdown_v2(content)
                               \o <<"\\", "*", "\\", "*">>
       /\ \A token \in {IOPEN, Delimited(IOPEN)}, content \in {<<"a">>, <<".">>} :
              call.text = token \o content \o (IF token = IOPEN THEN ICLOSE
                                               ELSE Delimited(ICLOSE))
              => call.result = <<"\\", "*">> \o escape_markdown_v2(content)
                               \o <<"\\", "*">>

\* "@@BOPEN@@.@@BCLOSE@@" has been rendered.
C25_Witness ==
    /\ call.pc = "rendered"
    /\ call.text = Delimited(BOPEN) \o <<".">> \o Delimited(BCLOSE)
    /\ call.result = <<"\\", "*", "\\", "*", "\\", ".", "\\", "*", "\\", "*">>

\* C26: sanitizeArtifacts applied to its own result changes nothing, and it
\* changes nothing of a text that holds no marker token.
C26_SanitizeIdempotent ==
    /\ call.pc = "sanitized_twice" => call.second = call.result
    /\ (call.pc = "sanitized" /\ ~HasMarkerToken(call.text)) => call.result = call.text

\* A text with two tokens that form no pair has been sanitized twice.
C26_Witness ==
    /\ call.pc = "sanitized_twice"
    /\ call.text = BOPEN \o <<" ">> \o IOPEN
    /\ call.result = <<"*", "*", " ", "*">>
    /\ call.second = call.result

\* C27: the final conversion turns a heading line into a bold line, "**x**"
\* and "__x__" into "*x*" with no double asterisk left, "*x*" and "_x_" into
\* "_x_", leaves the delimiters of the spans it recognized unescaped and
\* escapes every other reserved character; whatever the nesting, nothing of
\* its own placeholders is left in the result.
C27_FinalConversion ==
    (call.pc = "converted")
    => /\ call.text \in {<<"*", "*", "a", "*", "*">>, <<"_", "_", "a", "_", "_">>}
          => call.result = <<"*", "a", "*">>
       /\ call.text \in {<<"*", "a", "*">>, <<"_", "a", "_">>}
          => call.result = <<"_", "a", "_">>
       /\ call.text \in {<<"#", "a">>, <<"#", " ", "a">>, <<"#", "#", " ", "a">>}
          => call.result = <<"*", "a", "*">>
       /\ call.text = <<"a", ".">> => call.result = <<"a", "\\", ".">>
       /\ \A k \in 1..Len(call.result) : call.result[k] # "@"

\* C31: a run that ended on the exception path (it made the edit with the
\* fallback phrase) without the backend having given anything, neither a
\* fragment nor a non-streaming reply, has appended no assistant turn; and no
\* request, streaming or not, carries a window in which the fallback phrase
\* is an assistant turn.
C31_ErrorTextNotRecorded ==
    \A s \in Slots :
        LET r == slot[s]
        IN  /\ (/\ r.bpc = "finished"
                /\ CallsOf(r, {"fallback"}) # {}
                /\ r.fragments = <<>>
                /\ r.reply = <<>>)
               => r.appended = <<>>
            /\ \A i \in DOMAIN r.stream_window :
                   r.stream_window[i] # AssistantTurn(FALLBACK_PHRASE)
            /\ \A i \in DOMAIN r.ns_window :
                   r.ns_window[i] # AssistantTurn(FALLBACK_PHRASE)

=============================================================================
